---- MODULE Spec2Model ----
(***************************************************************************)
(* literature-feed: src/generate_feeds.py.                                 *)
(*                                                                         *)
(* One run of main(): for every configured query, dispatch on its type,    *)
(* fetch works from the works-search endpoint, score every work with       *)
(* get_journal_impact_score (memoised in journal_cache), keep the works    *)
(* whose score reaches impact_threshold, sort them by publication date     *)
(* and hand them to generate_rss_feed, which writes feeds/<feed_name>.xml. *)
(*                                                                         *)
(* JSON values are modelled by their shape: a key can be absent, hold      *)
(* null (Python None) or hold a string.  Strings the code inspects are     *)
(* sequences of tokens, so that startswith, rsplit, prefixing and the      *)
(* lexicographic comparison of ISO dates are computed, not assumed.        *)
(*                                                                         *)
(* Of a work, the model keeps primary_location.source.id, publication_date *)
(* and doi; title, abstract and authorships only feed the text of an item. *)
(* The request parameters of the two query types, load_settings and the    *)
(* console output are left out.                                            *)
(*                                                                         *)
(* Three specifications run the same actions over different inputs:        *)
(*   Spec        keyword, authors and unknown queries; works with or       *)
(*               without a journal, the doi absent or null                 *)
(*   SpecScorer  keyword queries; works that differ in their source id     *)
(*   SpecFeed    queries without a type; works that differ in date and doi *)
(***************************************************************************)
EXTENDS Integers, Sequences, FiniteSets

\* ------------------------------------------------------------------ bounds

\* Number of entries of config["queries"].
MaxQueries == 2
\* Largest number of works one works-search response holds.
MaxWorks == 2

\* ------------------------------------------------------------- JSON values

\* dict.get(key, default) sees one of: no such key, a null, a string.
JAbsent == [k |-> "absent", v |-> <<>>]
JNull == [k |-> "null", v |-> <<>>]
JStr(s) == [k |-> "str", v |-> s]

\* dict.get(key, default): the default replaces an absent key only; a key
\* holding null yields None.
Get(field, default) == IF field.k = "absent" THEN default ELSE field

\* Python truthiness of a value that is None or a string.
Truthy(x) == x.k = "str" /\ x.v # <<>>

\* --------------------------------------------------------------- the config

\* query.get("type", "keyword") (line 100).
QueryType(query) == Get(query.type, JStr(<<"keyword">>))

IsKeyword(query) == QueryType(query) = JStr(<<"keyword">>)
IsAuthors(query) == QueryType(query) = JStr(<<"authors">>)

\* The if / elif of lines 104 and 113: every other type reaches the else.
KnownType(query) == IsKeyword(query) \/ IsAuthors(query)

\* os.path.join(feeds_dir, f"{feed_name}.xml") (line 102).
OutputPath(query) == <<"feeds", query.feed_name, ".xml">>

\* config["queries"] with at most MaxQueries entries, in configuration
\* order, the "type" key of each drawn from `types`; the i-th entry has feed
\* name i (feed names are distinct).
Configs(types) ==
  UNION {{[i \in 1..n |-> [type |-> t[i], feed_name |-> i]] :
            t \in [1..n -> types]} : n \in 1..MaxQueries}

\* config.get("impact_threshold", 0.0) (line 97).
Thresholds == {0, 1}

\* ---------------------------------------------------------------- the works

\* work["primary_location"]["source"]["id"], by the shape of the chain.
LocShapes ==
  {"no_primary_location", "null_primary_location", "no_source",
   "null_source", "no_id", "null_id", "id"}

\* Line 30: work.get("primary_location", {}).get("source", {}).get("id").
\* A null primary_location or source is None, and None.get raises
\* AttributeError; an absent key falls back to {} and the chain ends in None.
SourceIdUrl(work) ==
  CASE work.loc.shape \in {"null_primary_location", "null_source"} ->
         [raised |-> TRUE, value |-> JNull]
    [] work.loc.shape \in {"no_primary_location", "no_source", "no_id",
                           "null_id"} ->
         [raised |-> FALSE, value |-> JNull]
    [] OTHER -> [raised |-> FALSE, value |-> JStr(work.loc.url)]

\* journal_id_url.rsplit("/", 1)[-1] (line 34): the last path segment.
JournalId(url) == url[Len(url)]

\* What the sources endpoint can answer (lines 38-42):
\*   network_error  requests.get raises
\*   http_error     raise_for_status raises
\*   malformed      response.json() or float(...) raises, or summary_stats
\*                  is null and .get raises
\*   no_stats       summary_stats or 2yr_mean_citedness is absent: 0.0
\*   ok             2yr_mean_citedness is the number v
SourceResponses ==
  {[kind |-> "network_error", v |-> 0], [kind |-> "http_error", v |-> 0],
   [kind |-> "malformed", v |-> 0], [kind |-> "no_stats", v |-> 0],
   [kind |-> "ok", v |-> 1]}

\* The request of lines 38-42 raises.
LookupRaises(resp) == resp.kind \in {"network_error", "http_error", "malformed"}

\* Line 42: float(data.get("summary_stats", {}).get("2yr_mean_citedness", 0.0)).
Impact(resp) == IF resp.kind = "no_stats" THEN 0 ELSE resp.v

\* CacheHit as it would be if the lookup of line 35 never found an entry.
CacheHitNever(journal_id, cache) == FALSE

\* Line 35: journal_id in journal_cache.
CacheHit(journal_id, cache) == journal_id \in DOMAIN cache

\* Line 44: journal_cache[journal_id] = impact.
CacheStore(cache, journal_id, impact) ==
  [j \in DOMAIN cache \cup {journal_id} |->
     IF j = journal_id THEN impact ELSE cache[j]]

\* get_journal_impact_score without the early return of lines 31-32: None
\* has no rsplit (AttributeError, caught), and "" goes on as the journal id
\* "" to the cache and the sources endpoint.
GetJournalImpactScoreNoEarlyReturn(work, cache, resp) ==
  LET u == SourceIdUrl(work) IN
  IF u.raised \/ u.value.k # "str"
  THEN [ret |-> 0, cache |-> cache, requested |-> FALSE, failed |-> TRUE,
        id |-> ""]
  ELSE LET journal_id == IF u.value.v = <<>> THEN "" ELSE JournalId(u.value.v) IN
       IF CacheHit(journal_id, cache)
       THEN [ret |-> cache[journal_id], cache |-> cache,
             requested |-> FALSE, failed |-> FALSE, id |-> journal_id]
       ELSE IF LookupRaises(resp)
       THEN [ret |-> 0, cache |-> cache, requested |-> TRUE,
             failed |-> TRUE, id |-> journal_id]
       ELSE [ret |-> Impact(resp),
             cache |-> CacheStore(cache, journal_id, Impact(resp)),
             requested |-> TRUE, failed |-> FALSE, id |-> journal_id]

\* get_journal_impact_score as it would be if the except of lines 46-48
\* stored the 0.0 it returns in journal_cache.
GetJournalImpactScoreMemoFailure(work, cache, resp) ==
  LET u == SourceIdUrl(work) IN
  IF u.raised
  THEN [ret |-> 0, cache |-> cache, requested |-> FALSE, failed |-> TRUE,
        id |-> ""]
  ELSE IF ~Truthy(u.value)
  THEN [ret |-> 0, cache |-> cache, requested |-> FALSE, failed |-> FALSE,
        id |-> ""]
  ELSE LET journal_id == JournalId(u.value.v) IN
       IF CacheHit(journal_id, cache)
       THEN [ret |-> cache[journal_id], cache |-> cache,
             requested |-> FALSE, failed |-> FALSE, id |-> journal_id]
       ELSE IF LookupRaises(resp)
       THEN [ret |-> 0, cache |-> CacheStore(cache, journal_id, 0),
             requested |-> TRUE, failed |-> TRUE, id |-> journal_id]
       ELSE [ret |-> Impact(resp),
             cache |-> CacheStore(cache, journal_id, Impact(resp)),
             requested |-> TRUE, failed |-> FALSE, id |-> journal_id]

\* get_journal_impact_score(work, email) (lines 28-48) with journal_cache
\* `cache`, when the sources endpoint would answer `resp`.  The result holds
\* the value returned, the cache afterwards, whether the sources endpoint
\* was requested, whether an exception was caught (line 46) and the journal
\* id the call was for ("" when there is none).
GetJournalImpactScore(work, cache, resp) ==
  LET u == SourceIdUrl(work) IN
  IF u.raised
  THEN [ret |-> 0, cache |-> cache, requested |-> FALSE, failed |-> TRUE,
        id |-> ""]
  ELSE IF ~Truthy(u.value)
  THEN [ret |-> 0, cache |-> cache, requested |-> FALSE, failed |-> FALSE,
        id |-> ""]
  ELSE LET journal_id == JournalId(u.value.v) IN
       IF CacheHit(journal_id, cache)
       THEN [ret |-> cache[journal_id], cache |-> cache,
             requested |-> FALSE, failed |-> FALSE, id |-> journal_id]
       ELSE IF LookupRaises(resp)
       THEN [ret |-> 0, cache |-> cache, requested |-> TRUE,
             failed |-> TRUE, id |-> journal_id]
       ELSE [ret |-> Impact(resp),
             cache |-> CacheStore(cache, journal_id, Impact(resp)),
             requested |-> TRUE, failed |-> FALSE, id |-> journal_id]

\* The condition of line 129 as it would be with > for >=.
PassesFilterStrict(score, threshold) == score > threshold

\* Line 129: the condition of the comprehension.
PassesFilter(score, threshold) == score >= threshold

\* ------------------------------------------------------------------ sorting

\* An ISO date "YYYY-MM-DD" is the token sequence <<YYYY, MM, DD>>: Python's
\* comparison of two such strings, fixed-width and zero-padded, is the
\* lexicographic comparison of the three numbers.
RECURSIVE StrLess(_, _)
StrLess(a, b) ==
  IF b = <<>> THEN FALSE
  ELSE IF a = <<>> THEN TRUE
  ELSE IF Head(a) # Head(b) THEN Head(a) < Head(b)
  ELSE StrLess(Tail(a), Tail(b))

\* Line 132: the sort key, w.get("publication_date", "1900-01-01").
SortKey(work) == Get(work.publication_date, JStr(<<1900, 1, 1>>))

\* One insertion of a stable descending sort: `work` goes behind every
\* element whose key is not smaller than its own.
RECURSIVE InsertDescending(_, _)
InsertDescending(sorted, work) ==
  IF sorted = <<>> THEN <<work>>
  ELSE IF StrLess(SortKey(Head(sorted)).v, SortKey(work).v)
  THEN <<work>> \o sorted
  ELSE <<Head(sorted)>> \o InsertDescending(Tail(sorted), work)

\* Lines 131-133: filtered_works.sort(key=..., reverse=True).  list.sort is
\* stable, also with reverse=True.
RECURSIVE SortByDateDescending(_)
SortByDateDescending(list) ==
  IF list = <<>> THEN <<>>
  ELSE InsertDescending(SortByDateDescending(SubSeq(list, 1, Len(list) - 1)),
                        list[Len(list)])

\* ---------------------------------------------------------------- rendering

\* str.startswith("http") (line 70).
StartsWithHttp(s) == s # <<>> /\ Head(s) = "http"

\* Lines 65 and 70: doi_raw = work.get("doi", ""), then doi_raw.startswith:
\* a null doi is None, which has no startswith (AttributeError, uncaught).
DoiRaises(work) == Get(work.doi, JStr(<<>>)).k = "null"

\* Lines 70-75: the link of an item.
LinkUrl(work) ==
  LET doi_raw == Get(work.doi, JStr(<<>>)).v IN
  IF StartsWithHttp(doi_raw) THEN doi_raw
  ELSE IF doi_raw # <<>> THEN <<"http", "s://doi.org/">> \o doi_raw
  ELSE <<"http", "s://openalex.org">>

\* Lines 67 and 82-86: pub_date = work.get("publication_date", "2024-01-01");
\* a value fromisoformat rejects leaves the item without a pubDate.
PubDate(work) ==
  LET pub_date == Get(work.publication_date, JStr(<<2024, 1, 1>>)) IN
  IF pub_date.k = "str" THEN pub_date ELSE JAbsent

\* Lines 77-84: the entry of one work (id and link are the same url).
Entry(work) == [link |-> LinkUrl(work), pubDate |-> PubDate(work)]

\* Line 77: fg.add_entry().  feedgen's add_entry(feedEntry=None,
\* order='prepend') inserts the new entry at the head of the feed's entries.
AddEntry(entries, entry) == <<entry>> \o entries

\* Lines 62-86: the loop over the items, each added with add_entry.
RECURSIVE FeedEntries(_)
FeedEntries(items) ==
  IF items = <<>> THEN <<>>
  ELSE AddEntry(FeedEntries(SubSeq(items, 1, Len(items) - 1)),
                Entry(items[Len(items)]))

\* generate_rss_feed(feed_title, items, output_file) (lines 51-87): the
\* entries of the document fg.rss_file writes, in document order, or an
\* exception out of the loop, before line 87 is reached.
GenerateRssFeed(items) ==
  IF \E i \in 1..Len(items) : DoiRaises(items[i])
  THEN [raised |-> TRUE, entries |-> <<>>]
  ELSE [raised |-> FALSE, entries |-> FeedEntries(items)]

\* ------------------------------------------------- what the API can return

Loc(shape, url) == [shape |-> shape, url |-> url]

S1 == <<"https://openalex.org", "S1">>
S1Api == <<"https://api.openalex.org", "sources", "S1">>
S2 == <<"https://openalex.org", "S2">>

Works(locs, dates, dois) ==
  [loc : locs, publication_date : dates, doi : dois]

\* The lists of at most MaxWorks works out of `pool`.
WorkLists(pool) == UNION {[1..n -> pool] : n \in 0..MaxWorks}

\* The works of the runs that exercise the orchestration: with or without a
\* journal, the doi key absent or null.
RunPool ==
  Works({Loc("no_primary_location", <<>>), Loc("id", S1)},
        {JAbsent}, {JAbsent, JNull})

\* The works of the runs that exercise the scorer: no primary_location, a
\* null source, the empty id, and two journals, one of them under two urls.
ScorerPool ==
  Works({Loc("no_primary_location", <<>>), Loc("null_source", <<>>),
         Loc("id", <<>>), Loc("id", S1), Loc("id", S1Api), Loc("id", S2)},
        {JAbsent}, {JAbsent})

\* The works of the runs that exercise the renderer: no journal; the date
\* absent or one of two dates; the doi absent, null, "", bare, or a url.
FeedPool ==
  Works({Loc("no_primary_location", <<>>)},
        {JAbsent, JStr(<<2023, 5, 10>>), JStr(<<2024, 3, 1>>)},
        {JAbsent, JNull, JStr(<<>>), JStr(<<"10.1/xyz">>),
         JStr(<<"http", "s://doi.org/", "10.1/xyz">>)})

\* -------------------------------------------------------------------- state

VARIABLES
  queries,           \* config["queries"], in configuration order
  impact_threshold,  \* config.get("impact_threshold", 0.0)
  journal_cache,     \* the module-level dict of line 26
  feeds,             \* the files under feeds/: path -> entries in document order
  written,           \* the paths rss_file wrote, in the order written
  pc,                \* where main is: dispatch, score, sort, render, done, aborted
  qi,                \* the position of the loop of line 99 in queries
  works,             \* main's works
  scored,            \* per work scored so far in this query: the score returned
                     \* and whether an exception was caught (line 46)
  filtered,          \* main's filtered_works
  lastCall,          \* what the latest get_journal_impact_score call did
  asked,             \* the journal ids get_journal_impact_score was called for
  resolved,          \* the journal ids whose sources request succeeded
  searched,          \* the positions of the queries fetch_openalex_works was called for
  error              \* the exception that left main, or "none"

vars ==
  <<queries, impact_threshold, journal_cache, feeds, written, pc, qi, works,
    scored, filtered, lastCall, asked, resolved, searched, error>>

NoCall == [ret |-> 0, requested |-> FALSE, failed |-> FALSE, id |-> ""]

EmptyMap == [x \in {} |-> 0]

\* Lines 90-97 and 26: the configuration is loaded, nothing is cached or
\* written, the loop stands at the first query.
Loaded(configs) ==
  /\ queries \in configs
  /\ impact_threshold \in Thresholds
  /\ journal_cache = EmptyMap
  /\ feeds = EmptyMap
  /\ written = <<>>
  /\ pc = "dispatch"
  /\ qi = 1
  /\ works = <<>>
  /\ scored = <<>>
  /\ filtered = <<>>
  /\ lastCall = NoCall
  /\ asked = {}
  /\ resolved = {}
  /\ searched = <<>>
  /\ error = "none"

\* The loop of line 99 moves on to the next query, or main returns.
NextQuery ==
  /\ qi' = qi + 1
  /\ pc' = IF qi + 1 > Len(queries) THEN "done" ELSE "dispatch"
  /\ works' = <<>>
  /\ scored' = <<>>
  /\ filtered' = <<>>
  /\ lastCall' = NoCall

\* fetch_openalex_works as it would be if main caught its exception, noted
\* it and went on with the next query.
FetchOpenalexWorksContinue(pool) ==
  \/ /\ searched' = Append(searched, qi)
     /\ error' = "FetchError"
     /\ NextQuery
  \/ /\ searched' = Append(searched, qi)
     /\ \E results \in WorkLists(pool) : works' = results
     /\ pc' = "score"
     /\ scored' = <<>>
     /\ filtered' = <<>>
     /\ UNCHANGED <<qi, lastCall, error>>

\* fetch_openalex_works (lines 16-23), called at `pc = "dispatch"`: either
\* requests.get or raise_for_status raises, which nothing in main catches,
\* or the results of the response become main's works.
FetchOpenalexWorks(pool) ==
  \/ /\ searched' = Append(searched, qi)
     /\ pc' = "aborted"
     /\ error' = "FetchError"
     /\ UNCHANGED <<qi, works, scored, filtered, lastCall>>
  \/ /\ searched' = Append(searched, qi)
     /\ \E results \in WorkLists(pool) : works' = results
     /\ pc' = "score"
     /\ scored' = <<>>
     /\ filtered' = <<>>
     /\ UNCHANGED <<qi, lastCall, error>>

\* Lines 104-111: a keyword query.
KeywordQuery(pool) ==
  /\ pc = "dispatch"
  /\ IsKeyword(queries[qi])
  /\ FetchOpenalexWorks(pool)
  /\ UNCHANGED <<queries, impact_threshold, journal_cache, feeds, written,
                 asked, resolved>>

\* Lines 113-123: an authors query.
AuthorsQuery(pool) ==
  /\ pc = "dispatch"
  /\ IsAuthors(queries[qi])
  /\ FetchOpenalexWorks(pool)
  /\ UNCHANGED <<queries, impact_threshold, journal_cache, feeds, written,
                 asked, resolved>>

\* The else of line 125 as it would be with break for continue.
SkipQueryBreak ==
  /\ qi' = qi + 1
  /\ pc' = "done"
  /\ works' = <<>>
  /\ scored' = <<>>
  /\ filtered' = <<>>
  /\ lastCall' = NoCall
  /\ UNCHANGED error

\* What the else of line 125 does after its print: continue (line 127).
SkipQuery == NextQuery /\ UNCHANGED error

\* Lines 125-127: any other type.
UnknownQuery ==
  /\ pc = "dispatch"
  /\ ~KnownType(queries[qi])
  /\ SkipQuery
  /\ UNCHANGED <<queries, impact_threshold, journal_cache, feeds, written,
                 asked, resolved, searched>>

\* Line 129, one element of the comprehension: the next work is scored and
\* kept when its score passes the filter.
ScoreWork ==
  /\ pc = "score"
  /\ Len(scored) < Len(works)
  /\ \E resp \in SourceResponses :
       LET work == works[Len(scored) + 1]
           r == GetJournalImpactScore(work, journal_cache, resp)
       IN /\ journal_cache' = r.cache
          /\ scored' = Append(scored, [ret |-> r.ret, failed |-> r.failed])
          /\ filtered' = IF PassesFilter(r.ret, impact_threshold)
                         THEN Append(filtered, work) ELSE filtered
          /\ lastCall' = [ret |-> r.ret, requested |-> r.requested,
                          failed |-> r.failed, id |-> r.id]
          /\ asked' = IF r.id = "" THEN asked ELSE asked \cup {r.id}
          /\ resolved' = IF r.requested /\ ~r.failed
                          THEN resolved \cup {r.id} ELSE resolved
  /\ UNCHANGED <<queries, impact_threshold, feeds, written, pc, qi, works,
                 searched, error>>

\* Lines 131-134: the comprehension is over, filtered_works is sorted.
SortWorks ==
  /\ pc = "score"
  /\ Len(scored) = Len(works)
  /\ filtered' = SortByDateDescending(filtered)
  /\ pc' = "render"
  /\ UNCHANGED <<queries, impact_threshold, journal_cache, feeds, written, qi,
                 works, scored, lastCall, asked, resolved, searched, error>>

\* Lines 135-136: generate_rss_feed(feed_name, filtered_works, output_path).
\* An exception out of it leaves main; otherwise the file is written and
\* the loop goes on.
RenderFeed ==
  /\ pc = "render"
  /\ LET r == GenerateRssFeed(filtered)
         path == OutputPath(queries[qi])
     IN IF r.raised
        THEN /\ pc' = "aborted"
             /\ error' = "RenderError"
             /\ UNCHANGED <<feeds, written, qi, works, scored, filtered, lastCall>>
        ELSE /\ feeds' = [p \in DOMAIN feeds \cup {path} |->
                            IF p = path THEN r.entries ELSE feeds[p]]
             /\ written' = Append(written, path)
             /\ NextQuery
             /\ UNCHANGED error
  /\ UNCHANGED <<queries, impact_threshold, journal_cache, asked, resolved,
                 searched>>

\* Runs over configurations of keyword, authors and unknown ("foo") queries.
Init == Loaded(Configs({JStr(<<"keyword">>), JStr(<<"authors">>), JStr(<<"foo">>)}))

Next ==
  \/ KeywordQuery(RunPool)
  \/ AuthorsQuery(RunPool)
  \/ UnknownQuery
  \/ ScoreWork
  \/ SortWorks
  \/ RenderFeed

Spec == Init /\ [][Next]_vars

\* Runs over keyword queries whose works differ in their source id.
InitScorer == Loaded(Configs({JStr(<<"keyword">>)}))

NextScorer ==
  \/ KeywordQuery(ScorerPool)
  \/ ScoreWork
  \/ SortWorks
  \/ RenderFeed

SpecScorer == InitScorer /\ [][NextScorer]_vars

\* Runs over queries without a "type" key (keyword queries by the default of
\* line 100) whose works differ in date and doi.
InitFeed == Loaded(Configs({JAbsent}))

NextFeed ==
  \/ KeywordQuery(FeedPool)
  \/ ScoreWork
  \/ SortWorks
  \/ RenderFeed

SpecFeed == InitFeed /\ [][NextFeed]_vars

\* ------------------------------------------------------------------- claims

\* main stands inside the comprehension of line 129, before the call of
\* get_journal_impact_score for CurrentWork.
Scoring == pc = "score" /\ Len(scored) < Len(works)

CurrentWork == works[Len(scored) + 1]

\* A work without a primary_location.source.id: primary_location, source or
\* id absent or null, or the id empty.
NoSourceId(work) == work.loc.shape # "id" \/ work.loc.url = <<>>

\* The journal id of a work that has a source id.
JournalIdOf(work) == work.loc.url[Len(work.loc.url)]

\* How often `x` occurs in the list `list`.
Count(list, x) == Cardinality({i \in 1..Len(list) : list[i] = x})

\* The positions of `works` whose score is at least the threshold.
KeptPositions(n) ==
  {i \in 1..n : scored[i].ret >= impact_threshold}

\* C1: the works handed to the feed renderer are exactly the fetched works
\* whose score, as get_journal_impact_score returned it, is at least
\* impact_threshold: each such work as often as it was fetched with such a
\* score, and no other.  The same holds of the part of the comprehension
\* already evaluated.
C1_FilterExact ==
  pc \in {"score", "render"} =>
    /\ Len(filtered) = Cardinality(KeptPositions(Len(scored)))
    /\ \A i \in 1..Len(scored) :
         Count(filtered, works[i]) =
           Cardinality({k \in KeptPositions(Len(scored)) : works[k] = works[i]})
    /\ pc = "render" => Len(scored) = Len(works)

\* A list is handed to the renderer that kept a work scoring exactly the
\* threshold and dropped one scoring below it.
C1_Witness ==
  /\ pc = "render"
  /\ impact_threshold = 1
  /\ \E i, k \in 1..Len(works) :
       /\ scored[i].ret = impact_threshold
       /\ scored[k].ret < impact_threshold
       /\ Count(filtered, works[i]) >= 1

\* C2 as claimed: a call for a journal id that an earlier call of the run was
\* made for requests nothing from the sources endpoint, whatever the earlier
\* call's outcome.
C2_Original ==
  [][(Scoring /\ ~NoSourceId(CurrentWork)
        /\ JournalIdOf(CurrentWork) \in asked)
       => ~lastCall'.requested]_vars

\* C2, amended: a call for a journal id requests nothing from the sources
\* endpoint, and returns the score stored then, when an earlier call of the
\* run for that id (in this or an earlier query) got its score from the
\* sources endpoint; when every earlier call for that id failed, the call
\* requests the sources endpoint again.
C2_Amended ==
  [][(Scoring /\ ~NoSourceId(CurrentWork)) =>
       LET j == JournalIdOf(CurrentWork) IN
       /\ j \in resolved =>
            /\ ~lastCall'.requested
            /\ ~lastCall'.failed
            /\ lastCall'.ret = journal_cache[j]
       /\ j \in asked \ resolved => lastCall'.requested]_vars

\* In a later query, a call for a journal already resolved was answered
\* without a request.
C2_Witness ==
  /\ qi = 2
  /\ pc = "score"
  /\ Len(scored) >= 1
  /\ lastCall.id \in resolved
  /\ ~lastCall.requested
  /\ lastCall.id \notin {JournalIdOf(works[i]) : i \in
                           {k \in 1..(Len(scored) - 1) : ~NoSourceId(works[k])}}

\* Every shape of a missing source id, scored against the cache as it is:
\* 0.0, no request, the cache as before, whatever the endpoint would answer.
C3_EveryShape ==
  \A shape \in LocShapes, resp \in SourceResponses :
    LET work == [loc |-> Loc(shape, <<>>), publication_date |-> JAbsent,
                 doi |-> JAbsent]
        r == GetJournalImpactScore(work, journal_cache, resp)
    IN r.ret = 0 /\ ~r.requested /\ r.cache = journal_cache

\* C3: for a work without a primary_location.source.id,
\* get_journal_impact_score returns 0.0, requests nothing from the sources
\* endpoint and leaves journal_cache as it was.
C3_NoSourceId ==
  /\ []C3_EveryShape
  /\ [][(Scoring /\ NoSourceId(CurrentWork)) =>
          /\ lastCall'.ret = 0
          /\ scored'[Len(scored')].ret = 0
          /\ ~lastCall'.requested
          /\ journal_cache' = journal_cache
          /\ asked' = asked]_vars

\* A work without a source id was scored while journal_cache held an entry.
C3_Witness ==
  /\ pc = "score"
  /\ Len(scored) >= 1
  /\ NoSourceId(works[Len(scored)])
  /\ DOMAIN journal_cache # {}
  /\ lastCall.ret = 0

\* C10: journal_cache only grows.  No step removes or overwrites an entry;
\* an entry appears only in a call that requested the sources endpoint for
\* that journal id and got a score, which is the entry; a call that failed,
\* or returned without a request, leaves journal_cache as it was; so the
\* cached ids are the resolved ones, and an id whose lookups all failed is
\* not cached.
C10_CacheOnlyGrows ==
  /\ [](DOMAIN journal_cache = resolved)
  /\ [][/\ \A j \in DOMAIN journal_cache :
             j \in DOMAIN journal_cache' /\ journal_cache'[j] = journal_cache[j]
        /\ \A j \in DOMAIN journal_cache' \ DOMAIN journal_cache :
             /\ Scoring
             /\ ~NoSourceId(CurrentWork)
             /\ JournalIdOf(CurrentWork) = j
             /\ lastCall'.requested
             /\ ~lastCall'.failed
             /\ journal_cache'[j] = lastCall'.ret
        /\ (Scoring /\ (lastCall'.failed \/ ~lastCall'.requested))
             => journal_cache' = journal_cache]_vars

\* One journal is cached while the lookups of another have all failed.
C10_Witness ==
  /\ DOMAIN journal_cache # {}
  /\ asked \ resolved # {}
  /\ lastCall.failed
  /\ lastCall.requested

\* The output paths of the queries of a known type among the first n, in
\* configuration order.
RECURSIVE KnownPaths(_)
KnownPaths(n) ==
  IF n = 0 THEN <<>>
  ELSE IF KnownType(queries[n])
  THEN Append(KnownPaths(n - 1), OutputPath(queries[n]))
  ELSE KnownPaths(n - 1)

Range(list) == {list[i] : i \in 1..Len(list)}

\* Some call of get_journal_impact_score in the current query caught an
\* exception.
LookupFailed == \E i \in 1..Len(scored) : scored[i].failed

\* C4 as claimed: a failure inside get_journal_impact_score yields the score
\* 0.0 and does not leave the function; the remaining works of the query are
\* scored; the failing work is dropped exactly when impact_threshold is
\* greater than 0; and the feed of the query is still written, main is not
\* left by an exception.
C4_Claim ==
  /\ \A i \in 1..Len(scored) :
       scored[i].failed =>
         /\ scored[i].ret = 0
         /\ (i \in KeptPositions(Len(scored))) <=> ~(impact_threshold > 0)
  /\ pc = "render" => Len(scored) = Len(works)
  /\ LookupFailed => error = "none"

\* C5: when the works-search call of a query fails, main is left by the
\* exception at once: nothing was scored or rendered for that query, no
\* later query is searched, scored or rendered, the step writes nothing, and
\* the files of the earlier queries stay as written (exactly the files of
\* the earlier queries of a known type exist, and no step follows).
C5_FetchErrorAborts ==
  /\ [](error = "FetchError" =>
          /\ pc = "aborted"
          /\ works = <<>> /\ scored = <<>> /\ filtered = <<>>
          /\ \A i \in 1..Len(searched) : searched[i] <= qi
          /\ written = KnownPaths(qi - 1)
          /\ DOMAIN feeds = Range(written))
  /\ [][/\ error' = "FetchError" =>
             /\ pc = "dispatch"
             /\ feeds' = feeds
             /\ written' = written
             /\ journal_cache' = journal_cache
             /\ asked' = asked
        /\ error # "FetchError"]_vars

\* The works search of the second query failed after the first query's feed
\* was written.
C5_Witness ==
  /\ error = "FetchError"
  /\ qi = 2
  /\ Len(written) = 1
  /\ feeds[written[1]] # <<>>

\* C6 as claimed: once a query of an unknown type was skipped, it has no
\* file, and every later query of a known type has produced its file when
\* the run ends.
C6_Original ==
  \A k \in 1..Len(queries) :
    (k < qi /\ ~KnownType(queries[k]) /\ pc \in {"done", "aborted"}) =>
      /\ OutputPath(queries[k]) \notin DOMAIN feeds
      /\ \A m \in (k + 1)..Len(queries) :
           KnownType(queries[m]) => OutputPath(queries[m]) \in DOMAIN feeds

\* C6, amended: a query of an unknown type is skipped: no works search, no
\* impact lookup and no file for it, nothing else changes, and the loop goes
\* on with the next query in configuration order; a run that ends without
\* an exception has written the file of every query of a known type, once
\* each, in configuration order.
C6_Amended ==
  /\ [](\A k \in 1..Len(queries) :
          ~KnownType(queries[k]) =>
            /\ OutputPath(queries[k]) \notin DOMAIN feeds
            /\ k \notin Range(searched))
  /\ [](pc = "done" =>
          /\ error = "none"
          /\ written = KnownPaths(Len(queries))
          /\ DOMAIN feeds = Range(written))
  /\ [][(pc = "dispatch" /\ ~KnownType(queries[qi])) =>
          /\ qi' = qi + 1
          /\ pc' = IF qi < Len(queries) THEN "dispatch" ELSE "done"
          /\ error' = "none"
          /\ feeds' = feeds
          /\ written' = written
          /\ searched' = searched
          /\ journal_cache' = journal_cache
          /\ asked' = asked]_vars

\* A run whose first query was skipped ended with the file of its second.
C6_Witness ==
  /\ pc = "done"
  /\ Len(queries) = 2
  /\ ~KnownType(queries[1])
  /\ KnownType(queries[2])
  /\ written = <<OutputPath(queries[2])>>
  /\ searched = <<2>>

\* C9 as claimed: every query of a known type whose works search succeeded
\* has exactly one file, at its output path, once it has been processed,
\* whether or not a work passed the filter.
C9_Claim ==
  \A k \in 1..Len(queries) :
    (/\ KnownType(queries[k])
     /\ k \in Range(searched)
     /\ ~(error = "FetchError" /\ k = qi)
     /\ (k < qi \/ pc \in {"done", "aborted"})) =>
      /\ Count(written, OutputPath(queries[k])) = 1
      /\ OutputPath(queries[k]) \in DOMAIN feeds

\* The order the claim describes: by publication_date descending, a work
\* without one as if dated 1900-01-01.
ClaimedKey(work) ==
  IF work.publication_date.k = "str" THEN work.publication_date.v
  ELSE <<1900, 1, 1>>

\* C7 as claimed: the list handed to the renderer is in descending
\* publication_date order, works without a date last, and the items of the
\* written feed follow that order (stated on the dates the items carry).
C7_Claim ==
  [][(pc = "render" /\ pc' # "aborted") =>
       /\ \A i, k \in 1..Len(filtered) :
            i < k => ~StrLess(ClaimedKey(filtered[i]), ClaimedKey(filtered[k]))
       /\ LET feed == feeds'[OutputPath(queries[qi])] IN
          /\ Len(feed) = Len(filtered)
          /\ \A i \in 1..Len(filtered) :
               feed[i].pubDate = PubDate(filtered[i])]_vars

\* The link the claim describes.
ClaimedLink(work) ==
  IF work.doi.k = "str" /\ work.doi.v # <<>>
  THEN IF Head(work.doi.v) = "http" THEN work.doi.v
       ELSE <<"http", "s://doi.org/">> \o work.doi.v
  ELSE <<"http", "s://openalex.org">>

\* C8 as claimed: every work handed to the renderer becomes an item of the
\* written feed whose link is the doi when it starts with "http",
\* "https://doi.org/" and the doi when it is another non-empty string, and
\* "https://openalex.org" when the work has no doi.
C8_Claim ==
  [][pc = "render" =>
       /\ pc' # "aborted"
       /\ written' = Append(written, OutputPath(queries[qi]))
       /\ LET feed == feeds'[OutputPath(queries[qi])] IN
          /\ Len(feed) = Len(filtered)
          /\ \A i \in 1..Len(filtered) :
               Cardinality({k \in 1..Len(feed) :
                              feed[k].link = ClaimedLink(filtered[i])})
                 = Cardinality({k \in 1..Len(filtered) :
                                  ClaimedLink(filtered[k]) = ClaimedLink(filtered[i])})]_vars

====
